---- MODULE Spec2Model ----
(***************************************************************************)
(* Storybook front end: the reactive State store (static/js/state.js), the *)
(* WebSocket client WS, the action handlers of the main application and    *)
(* of WorldBibleUI (static/js/world-bible.js), and the REST client API     *)
(* (static/js/api.js) they call.                                           *)
(*                                                                         *)
(* Three specifications of the front end share the module:                                  *)
(*   SpecState  the State store driven by arbitrary set / onChange calls   *)
(*   SpecWS     the WS client: connect, messages, close, reconnect timer   *)
(*   Spec       the application: handlers, requests in flight, responses,  *)
(*              messages pushed by the server                              *)
(* A fourth, SpecDeploy, is the deployment script deploy/auto-pull.sh run  *)
(* again and again by its timer.                                           *)
(***************************************************************************)
EXTENDS Integers, Sequences, FiniteSets, TLC

VARIABLES
    data,        \* State._data: key -> value, only the keys that exist
    listeners,   \* State._listeners: the kind of each registered listener
    calls,       \* the listener calls made by the last State.set, in order
    sop,         \* the last operation on the State store
    wsSock,      \* WS._ws: "none" before connect, else the socket's readyState
    wsTimers,    \* the pending setTimeout(() => this.connect(), delay): their delays
    wsHandlers,  \* WS._handlers: kind of each handler and the connection it was added under
    wsConns,     \* how many times connect() has run (saturates at MaxConns)
    wsLast,      \* the last event of the WS client
    wsCalled,    \* the handlers called for the last message, in call order
    tasks,       \* the handler invocations that await a response of the backend
    last,        \* what the last step of the application did
    started,     \* how many handler invocations have been started
    msgs,        \* how many pushed messages handleWSMessage has handled
    srvRev,      \* the server's revision of each story (its edits so far)
    ActiveTimers, \* ActiveTimers: key -> the intervalId of its entry
    intervals,   \* the intervals set and not cleared: the key each was set for, its id
    nextInterval, \* the id the next setInterval returns
    shotCards,   \* the shots that have a card in #shot-cards
    loadsDone,   \* the story loads that have succeeded, in order of arrival
    lastMsg,     \* the pushed message the last step handled, if it handled one
    upstream,    \* the commit of main on the remote
    originMain,  \* the checkout's ref origin/main
    head,        \* the checkout's HEAD
    running,     \* the commit the storybook service was last (re)started on
    pcDeploy,    \* where the current run of auto-pull.sh is
    localRev,    \* $LOCAL
    remoteRev,   \* $REMOTE
    deployFails  \* how many commands of auto-pull.sh have failed so far

stateVars == <<data, listeners, calls, sop>>

wsVars == <<wsSock, wsTimers, wsHandlers, wsConns, wsLast, wsCalled>>

libVars == <<listeners, calls, sop>>

appVars == <<tasks, last, started, msgs, srvRev, ActiveTimers, loadsDone, lastMsg,
             intervals, nextInterval, shotCards>>

deployVars ==
    <<upstream, originMain, head, running, pcDeploy, localRev, remoteRev, deployFails>>

vars == <<data, listeners, calls, sop, wsSock, wsTimers, wsHandlers, wsConns, wsLast,
          wsCalled, tasks, last, started, msgs, srvRev, ActiveTimers, loadsDone, lastMsg,
          intervals, nextInterval, shotCards,
          upstream, originMain, head, running, pcDeploy, localRev, remoteRev,
          deployFails>>

(***************************************************************************)
(* Bounds of the model                                                     *)
(***************************************************************************)
MaxListeners == 2

MaxHandlers == 2

MaxConns == 3

MaxTasks == 2

MaxStarts == 2

MaxMsgs == 1

MaxRev == 1

MaxCommits == 3

MaxFails == 1

MaxIntervals == 4

MaxProgress == 3

\* handlers started in a run that clicks markers and shot cards
MaxClicks == 4

\* progress messages pushed in such a run
MaxShown == 2

(***************************************************************************)
(* Values held by the store.  null is 0 for the id-valued keys (ids start  *)
(* at 1) and NoStory for currentStory; undefined, the result of reading a  *)
(* key that _data does not have, is Undefined.                             *)
(***************************************************************************)
Null == 0

StoryIds == {1, 2}

\* scenes of each story, as the server returns them (story 2 is not segmented)
ScenesOf(id) == IF id = 1 THEN {1, 2} ELSE {}

\* shots of each scene (scene 2 has shot_count 0)
ShotsOf(sc) == IF sc = 1 THEN {1, 2} ELSE {}

SceneIds == UNION {ScenesOf(id) : id \in StoryIds}

ShotIds == UNION {ShotsOf(sc) : sc \in SceneIds}

StoryShots(id) == UNION {ShotsOf(sc) : sc \in ScenesOf(id)}

\* a shot as the server returns it before anything was generated
FreshShot ==
    [generation_status |-> "pending", error_message |-> FALSE, current_image |-> FALSE,
     video_generation_status |-> "pending", video_error_message |-> FALSE,
     current_video |-> FALSE]

NoStory == [id |-> Null, rev |-> 0, shots |-> [s \in {} |-> FreshShot]]

Undefined == [isSet |-> FALSE, elems |-> {}]

NoWorldBible == [story |-> Null]

Keys == {"stories", "currentStory", "selectedScene", "selectedShot", "view",
         "loading", "breakingDownScenes", "worldBible"}

\* State._data as the object literal builds it
InitData ==
    [stories |-> {},
     currentStory |-> NoStory,
     selectedScene |-> Null,
     selectedShot |-> Null,
     view |-> "create",
     loading |-> FALSE]

(***************************************************************************)
(* State.get, State.set, State._notify, State.onChange                     *)
(***************************************************************************)
StateGet(d, key) == IF key \in DOMAIN d THEN d[key] ELSE Undefined

\* a store that writes only the keys the object literal declared
StateStoreDeclaredOnly(d, key, value) ==
    [k \in DOMAIN d |-> IF k = key THEN value ELSE d[k]]

\* this._data[key] = value
StateStore(d, key, value) ==
    [k \in (DOMAIN d) \cup {key} |-> IF k = key THEN value ELSE d[k]]

\* a _notify without the try/catch around each call: the first listener
\* that throws ends the loop
RECURSIVE StateNotifyNoCatch(_, _, _, _)
StateNotifyNoCatch(ls, d, key, i) ==
    IF i > Len(ls) THEN <<>>
    ELSE <<[fn |-> i, key |-> key, value |-> StateGet(d, key),
            threw |-> (ls[i] = "throws")]>>
         \o (IF ls[i] = "throws" THEN <<>> ELSE StateNotifyNoCatch(ls, d, key, i + 1))

\* _notify: every listener is called with (key, _data[key]); a listener
\* that throws is caught and the loop goes on.  The result is the list of
\* the calls made, from listener i on.
RECURSIVE StateNotify(_, _, _, _)
StateNotify(ls, d, key, i) ==
    IF i > Len(ls) THEN <<>>
    ELSE <<[fn |-> i, key |-> key, value |-> StateGet(d, key),
            threw |-> (ls[i] = "throws")]>>
         \o StateNotify(ls, d, key, i + 1)

\* the values the callers of State.set pass for each key
ValuesOf(key) ==
    CASE key = "stories" -> {{}, StoryIds}
      [] key = "currentStory" -> {NoStory, [id |-> 2, rev |-> 0, shots |-> [s \in {} |-> FreshShot]]}
      [] key = "selectedScene" -> {Null, 1}
      [] key = "selectedShot" -> {Null, 1}
      [] key = "view" -> {"create", "timeline"}
      [] key = "loading" -> BOOLEAN
      [] key = "breakingDownScenes" -> {Undefined, [isSet |-> TRUE, elems |-> {1}]}
      [] key = "worldBible" -> {NoWorldBible, [story |-> 1]}

NoOp == [op |-> "none", key |-> "view", value |-> "create"]

\* State.set(key, value)
StateSet(key, value) ==
    /\ data' = StateStore(data, key, value)
    /\ calls' = StateNotify(listeners, data', key, 1)
    /\ sop' = [op |-> "set", key |-> key, value |-> value]
    /\ UNCHANGED listeners
    /\ UNCHANGED <<wsVars, appVars, deployVars>>

\* State.onChange(fn): fn either returns or throws when it is called
StateOnChange(kind) ==
    /\ Len(listeners) < MaxListeners
    /\ listeners' = Append(listeners, kind)
    /\ sop' = [op |-> "onChange", key |-> "view", value |-> kind]
    /\ UNCHANGED <<data, calls>>
    /\ UNCHANGED <<wsVars, appVars, deployVars>>

StateInit ==
    /\ data = InitData
    /\ listeners = <<>>
    /\ calls = <<>>
    /\ sop = NoOp

(***************************************************************************)
(* WS: the WebSocket client                                                *)
(***************************************************************************)
\* WS._reconnectDelay
ReconnectDelay == 1000

WSInit ==
    /\ wsSock = "none"
    /\ wsTimers = <<>>
    /\ wsHandlers = <<>>
    /\ wsConns = 0
    /\ wsLast = [ev |-> "none", payload |-> "none", conn |-> 0]
    /\ wsCalled = <<>>

Saturate(n) == IF n < MaxConns THEN n + 1 ELSE MaxConns

\* connect(): a new socket replaces this._ws
WSConnectBody ==
    /\ wsSock' = "connecting"
    /\ wsConns' = Saturate(wsConns)
    /\ wsLast' = [ev |-> "connect", payload |-> "none", conn |-> wsConns']
    /\ UNCHANGED <<wsHandlers, wsCalled>>

\* the page's call of WS.connect()
WSConnect ==
    /\ wsSock = "none"
    /\ WSConnectBody
    /\ UNCHANGED wsTimers
    /\ UNCHANGED <<stateVars, appVars, deployVars>>

\* onMessage(fn): fn either returns or throws when it is called
WSOnMessage(kind) ==
    /\ Len(wsHandlers) < MaxHandlers
    /\ wsHandlers' = Append(wsHandlers, [kind |-> kind, conn |-> wsConns])
    /\ wsLast' = [ev |-> "onMessage", payload |-> "none", conn |-> wsConns]
    /\ UNCHANGED <<wsSock, wsTimers, wsConns, wsCalled>>
    /\ UNCHANGED <<stateVars, appVars, deployVars>>

\* the socket opens
WSOpen ==
    /\ wsSock = "connecting"
    /\ wsSock' = "open"
    /\ wsLast' = [ev |-> "open", payload |-> "none", conn |-> wsConns]
    /\ UNCHANGED <<wsTimers, wsHandlers, wsConns, wsCalled>>
    /\ UNCHANGED <<stateVars, appVars, deployVars>>

\* for (const fn of this._handlers) fn(data): the handlers called, from
\* handler i on; an exception leaves the loop
RECURSIVE WSDispatch(_, _)
WSDispatch(hs, i) ==
    IF i > Len(hs) THEN <<>>
    ELSE IF hs[i].kind = "throws" THEN <<i>>
    ELSE <<i>> \o WSDispatch(hs, i + 1)

\* onmessage: JSON.parse(e.data) throws on a payload that is not JSON; the
\* catch around parse and dispatch logs the exception
WSOnmessage(payload) ==
    IF payload = "json" THEN WSDispatch(wsHandlers, 1) ELSE <<>>

WSMessage(payload) ==
    /\ wsSock = "open"
    /\ wsCalled' = WSOnmessage(payload)
    /\ wsLast' = [ev |-> "message", payload |-> payload, conn |-> wsConns]
    /\ UNCHANGED <<wsSock, wsTimers, wsHandlers, wsConns>>
    /\ UNCHANGED <<stateVars, appVars, deployVars>>

\* an onerror that schedules a reconnect of its own besides closing
WSOnerrorReconnects ==
    /\ wsSock \in {"connecting", "open"}
    /\ wsSock' = "closing"
    /\ wsTimers' = Append(wsTimers, ReconnectDelay)
    /\ wsLast' = [ev |-> "error", payload |-> "none", conn |-> wsConns]
    /\ UNCHANGED <<wsHandlers, wsConns, wsCalled>>
    /\ UNCHANGED <<stateVars, appVars, deployVars>>

\* onerror: this._ws.close()
WSOnerror ==
    /\ wsSock \in {"connecting", "open"}
    /\ wsSock' = "closing"
    /\ wsLast' = [ev |-> "error", payload |-> "none", conn |-> wsConns]
    /\ UNCHANGED <<wsTimers, wsHandlers, wsConns, wsCalled>>
    /\ UNCHANGED <<stateVars, appVars, deployVars>>

\* onclose: setTimeout(() => this.connect(), this._reconnectDelay)
WSOnclose ==
    /\ wsSock \in {"connecting", "open", "closing"}
    /\ wsSock' = "closed"
    /\ wsTimers' = Append(wsTimers, ReconnectDelay)
    /\ wsLast' = [ev |-> "close", payload |-> "none", conn |-> wsConns]
    /\ UNCHANGED <<wsHandlers, wsConns, wsCalled>>
    /\ UNCHANGED <<stateVars, appVars, deployVars>>

\* the timeout set by onclose fires
WSReconnect ==
    /\ wsTimers # <<>>
    /\ wsTimers' = Tail(wsTimers)
    /\ WSConnectBody
    /\ UNCHANGED <<stateVars, appVars, deployVars>>

OnMessageAny == \E kind \in {"returns", "throws"} : WSOnMessage(kind)

MessageAny == \E payload \in {"json", "garbage"} : WSMessage(payload)

NextWS ==
    \/ WSConnect
    \/ OnMessageAny
    \/ WSOpen
    \/ MessageAny
    \/ WSOnerror
    \/ WSOnclose
    \/ WSReconnect

(***************************************************************************)
(* The application: state, rendering, the start of every handler           *)
(***************************************************************************)
Idle == [h |-> "idle", pc |-> "none", sid |-> Null, seq |-> 0]

\* what one step did: handler h got the outcome ok of request api (or
\* started, or handled a pushed message), showed toasts error toasts, let
\* an exception escape (rejected), and now awaits next
StepOf(h, api, sid, ok, toasts, rejected, next) ==
    [h |-> h, api |-> api, sid |-> sid, ok |-> ok, toasts |-> toasts,
     rejected |-> rejected, next |-> next]

NoMsg == [type |-> "none", id |-> Null, status |-> "none"]

\* DOMContentLoaded has run: loadStories() awaits GET /api/stories and
\* showView('create') has been called
AppInit ==
    /\ tasks = [i \in 1..MaxTasks |->
                  IF i = 1
                  THEN [h |-> "loadStories", pc |-> "listStories", sid |-> Null, seq |-> 0]
                  ELSE Idle]
    /\ last = StepOf("loadStories", "start", Null, TRUE, 0, FALSE, "listStories")
    /\ started = 0
    /\ msgs = 0
    /\ srvRev = [id \in StoryIds |-> 0]
    /\ ActiveTimers = <<>>
    /\ intervals = {}
    /\ nextInterval = 1
    /\ shotCards = {}
    /\ loadsDone = <<>>
    /\ lastMsg = NoMsg

Put(d, key, value) == StateStore(d, key, value)

CurrentStory(d) == StateGet(d, "currentStory")

BreakingDown(d) == StateGet(d, "breakingDownScenes")

HasStory(d) == CurrentStory(d).id # Null

\* the handlers that set loading around their work
TracksLoading == {"selectStory", "handleCreateStory", "segmentStory", "generateAll"}

\* the handlers that await refreshCurrentStory() inside their try
ThenRefresh == {"segmentStory", "buildPrompts", "transition", "reorder"}

\* the handlers that await loadWorldBible() inside their try
ThenLoadWorldBible == {"saveEntity", "saveCameraBible", "approveRef"}

\* the requests that change a story on the server
Mutating == {"segmentStory", "buildPrompts", "updateShot", "reorderShots"}

\* GET /api/stories/{id}/full: the story as the server has it now
getStoryFull(id) ==
    [id |-> id, rev |-> srvRev[id], shots |-> [s \in StoryShots(id) |-> FreshShot]]

\* renderSceneCards: breakingDown.has(sc.id) for each scene of the story
renderSceneCardsThrows(d) ==
    /\ ScenesOf(CurrentStory(d).id) # {}
    /\ ~BreakingDown(d).isSet

\* renderShotCards: breakingDown.has(selectedScene) when the selected scene
\* is in the story and has no shots
renderShotCardsThrows(d) ==
    /\ HasStory(d)
    /\ d.selectedScene # Null
    /\ d.selectedScene \in ScenesOf(CurrentStory(d).id)
    /\ ShotsOf(d.selectedScene) = {}
    /\ ~BreakingDown(d).isSet

\* renderDetailPanel: the shot detail if the selected shot is found, else
\* renderSceneDetail, which calls breakingDown.has(scene.id)
renderDetailPanelThrows(d) ==
    /\ ~(d.selectedShot # Null /\ HasStory(d)
         /\ d.selectedShot \in DOMAIN CurrentStory(d).shots)
    /\ d.selectedScene # Null
    /\ HasStory(d)
    /\ d.selectedScene \in ScenesOf(CurrentStory(d).id)
    /\ ~BreakingDown(d).isSet

renderTimelineThrows(d) ==
    /\ HasStory(d)
    /\ \/ renderSceneCardsThrows(d)
       \/ renderShotCardsThrows(d)
       \/ renderDetailPanelThrows(d)

HasSlot == \E i \in 1..MaxTasks : tasks[i] = Idle

Slot == CHOOSE i \in 1..MaxTasks : tasks[i] = Idle /\ \A j \in 1..(i - 1) : tasks[j] # Idle

Launch(h, pc, sid) ==
    [tasks EXCEPT ![Slot] = [h |-> h, pc |-> pc, sid |-> sid, seq |-> started + msgs + 1]]

\* the cards renderShotCards() leaves in #shot-cards: those of the shots of
\* the selected scene; none without story, selection or shots; the old ones
\* if it throws
renderShotCards(d, cards) ==
    IF renderShotCardsThrows(d) THEN cards
    ELSE IF HasStory(d) /\ d.selectedScene \in ScenesOf(CurrentStory(d).id)
    THEN ShotsOf(d.selectedScene) \cap DOMAIN CurrentStory(d).shots
    ELSE {}

\* the same for renderSceneCards(); renderShotCards()
renderCards(d, cards) ==
    IF renderSceneCardsThrows(d) THEN cards ELSE renderShotCards(d, cards)

\* the same for renderTimeline()
renderTimelineCards(d, cards) ==
    IF HasStory(d) THEN renderCards(d, cards) ELSE cards

\* a handler is invoked and leaves cards in #shot-cards
BeginDom(d, ts, l, cards) ==
    /\ started < MaxStarts
    /\ started' = started + 1
    /\ data' = d
    /\ tasks' = ts
    /\ last' = l
    /\ shotCards' = cards
    /\ lastMsg' = NoMsg
    /\ UNCHANGED <<msgs, srvRev, ActiveTimers, loadsDone, intervals, nextInterval>>
    /\ UNCHANGED <<libVars, wsVars, deployVars>>

\* a handler that does not render the shot cards is invoked
Begin(d, ts, l) == BeginDom(d, ts, l, shotCards)

\* a click handler of a rendered element runs; it awaits nothing
Clicked(d, l, cards) ==
    /\ started' = started + 1
    /\ data' = d
    /\ last' = l
    /\ shotCards' = cards
    /\ lastMsg' = NoMsg
    /\ UNCHANGED <<tasks, msgs, srvRev, ActiveTimers, loadsDone, intervals, nextInterval>>
    /\ UNCHANGED <<libVars, wsVars, deployVars>>

\* the handler returns at once, or an exception escapes before it awaits
Return(h, sid, d, toasts, rejected) ==
    Begin(d, tasks, StepOf(h, "start", sid, TRUE, toasts, rejected, "done"))

\* [if (!story) return;] [State.set('loading', true);] await API.api(sid)
StartRequest(h, api, sid, needsStory) ==
    IF needsStory /\ ~HasStory(data)
    THEN Return(h, Null, data, 0, FALSE)
    ELSE /\ HasSlot
         /\ Begin(IF h \in TracksLoading THEN Put(data, "loading", TRUE) ELSE data,
                  Launch(h, api, sid),
                  StepOf(h, "start", sid, TRUE, 0, FALSE, api))

\* a click on an item of the story list
selectStory(id) ==
    /\ id \in data.stories
    /\ StartRequest("selectStory", "getStoryFull/selectStory", id, FALSE)

\* the form is submitted; without title or text only a toast is shown
handleCreateStory(valid) ==
    IF valid
    THEN StartRequest("handleCreateStory", "createStory", Null, FALSE)
    ELSE Return("handleCreateStory", Null, data, 1, FALSE)

segmentStory ==
    StartRequest("segmentStory", "segmentStory", CurrentStory(data).id, TRUE)

breakdownScene(sceneId) ==
    LET bd == BreakingDown(data)
        d1 == Put(data, "breakingDownScenes", [bd EXCEPT !.elems = @ \cup {sceneId}])
    IN  IF ~bd.isSet
        THEN Return("breakdownScene", sceneId, data, 0, TRUE)
        ELSE IF sceneId \in bd.elems
        THEN Return("breakdownScene", sceneId, data, 0, FALSE)
        ELSE IF renderSceneCardsThrows(d1) \/ renderShotCardsThrows(d1)
        THEN Return("breakdownScene", sceneId, d1, 0, TRUE)
        ELSE /\ HasSlot
             /\ BeginDom(d1, Launch("breakdownScene", "breakdownScene", sceneId),
                         StepOf("breakdownScene", "start", sceneId, TRUE, 0, FALSE,
                                "breakdownScene"),
                         renderShotCards(d1, shotCards))

breakdownAll ==
    LET cur == CurrentStory(data)
        bd == BreakingDown(data)
        unbroken == {sc \in ScenesOf(cur.id) : ShotsOf(sc) = {}}
        d1 == Put(data, "breakingDownScenes",
                  IF bd.isSet THEN [bd EXCEPT !.elems = @ \cup unbroken] ELSE bd)
    IN  IF ~HasStory(data)
        THEN Return("breakdownAll", Null, data, 0, FALSE)
        ELSE IF ~bd.isSet /\ unbroken # {}
        THEN Return("breakdownAll", cur.id, data, 0, TRUE)
        ELSE IF renderSceneCardsThrows(d1)
        THEN Return("breakdownAll", cur.id, d1, 0, TRUE)
        ELSE /\ HasSlot
             /\ Begin(d1, Launch("breakdownAll", "breakdownAll", cur.id),
                      StepOf("breakdownAll", "start", cur.id, TRUE, 0, FALSE,
                             "breakdownAll"))

extractWorld ==
    StartRequest("extractWorld", "extractWorldBible", CurrentStory(data).id, TRUE)

buildPrompts ==
    StartRequest("buildPrompts", "buildPrompts", CurrentStory(data).id, TRUE)

generateShot(shotId) == StartRequest("generateShot", "generateShot", shotId, FALSE)

\* API has no generateShotVideo: the call throws inside the try
generateShotVideo(shotId) == Return("generateShotVideo", shotId, data, 1, FALSE)

\* API has no applyTransitions
suggestTransitions(sceneId) == Return("suggestTransitions", sceneId, data, 1, FALSE)

\* API has no generateShotMap
generateShotMap(sceneId) == Return("generateShotMap", sceneId, data, 1, FALSE)

\* API has no generateAllVideos
generateAllVideos ==
    IF HasStory(data)
    THEN Return("generateAllVideos", CurrentStory(data).id, data, 1, FALSE)
    ELSE Return("generateAllVideos", Null, data, 0, FALSE)

generateAll ==
    StartRequest("generateAll", "generateAll", CurrentStory(data).id, TRUE)

saveShotEdits(shotId) == StartRequest("saveShotEdits", "updateShot", shotId, FALSE)

\* a type is picked in the dropdown of a transition connector
transitionItemClick(fromShotId) ==
    StartRequest("transition", "updateShot", fromShotId, FALSE)

\* a shot card is dropped on another
shotCardDrop(fromId, toId) ==
    IF fromId = toId
    THEN Return("reorder", fromId, data, 0, FALSE)
    ELSE StartRequest("reorder", "reorderShots", fromId, FALSE)

\* updateCharacter, updateLocation or updateProp, by the entity's type
saveEntity(id) == StartRequest("saveEntity", "updateEntity", id, FALSE)

saveCameraBible(id) == StartRequest("saveCameraBible", "updateCameraBible", id, FALSE)

generateRefs(id) == StartRequest("generateRefs", "generateRefs", id, FALSE)

approveRef(refId) == StartRequest("approveRef", "approveRef", refId, FALSE)

showView(name) ==
    LET d1 == Put(data, "view", name)
    IN  IF name = "world-bible" /\ HasStory(d1)
        THEN /\ HasSlot
             /\ Begin(d1, Launch("showView", "getWorldBible", CurrentStory(d1).id),
                      StepOf("showView", "start", Null, TRUE, 0, FALSE, "getWorldBible"))
        ELSE Return("showView", Null, d1, 0, FALSE)

\* a click on a scene marker of the source strip
sceneMarkerClick(sceneId) ==
    LET d1 == Put(data, "selectedScene", sceneId)
    IN  /\ sceneId \in ScenesOf(CurrentStory(data).id)
        /\ Clicked(d1,
                   StepOf("sceneMarkerClick", "start", sceneId, TRUE, 0,
                          renderSceneCardsThrows(d1) \/ renderShotCardsThrows(d1)
                            \/ renderDetailPanelThrows(d1),
                          "done"),
                   renderCards(d1, shotCards))

\* a click on a shot card
shotCardClick(shotId) ==
    LET d1 == Put(data, "selectedShot", shotId)
    IN  /\ shotId \in shotCards
        /\ Clicked(d1,
                   StepOf("shotCardClick", "start", shotId, TRUE, 0,
                          renderShotCardsThrows(d1) \/ renderDetailPanelThrows(d1),
                          "done"),
                   renderShotCards(d1, shotCards))

(***************************************************************************)
(* The application: the responses of the backend                           *)
(***************************************************************************)
\* finally { State.set('loading', false) }
Finally(h, d) == IF h \in TracksLoading THEN Put(d, "loading", FALSE) ELSE d

Bump(n) == IF n < MaxRev THEN n + 1 ELSE MaxRev

StoryOfShot(shotId) == CHOOSE id \in StoryIds : shotId \in StoryShots(id)

\* the story a mutating request changes
StoryOf(t) == IF t.pc \in {"updateShot", "reorderShots"} THEN StoryOfShot(t.sid) ELSE t.sid

\* a response arrives for the request that task i awaits, and its handling
\* leaves cards in #shot-cards
RespondDom(i, d, t2, l, rev, loads, cards) ==
    /\ shotCards' = cards
    /\ data' = d
    /\ tasks' = [tasks EXCEPT ![i] = t2]
    /\ last' = l
    /\ srvRev' = rev
    /\ loadsDone' = loads
    /\ lastMsg' = NoMsg
    /\ UNCHANGED <<started, msgs, ActiveTimers, intervals, nextInterval>>
    /\ UNCHANGED <<libVars, wsVars, deployVars>>

Respond(i, d, t2, l, rev, loads) == RespondDom(i, d, t2, l, rev, loads, shotCards)

\* refreshCurrentStory() up to its await: it returns without a current story
RefreshCall(t, d) ==
    IF HasStory(d)
    THEN [t EXCEPT !.pc = "getStoryFull/refresh", !.sid = CurrentStory(d).id]
    ELSE Idle

\* if (story) await this.loadWorldBible(story.id)
LoadWorldBibleCall(t, d) ==
    IF HasStory(d)
    THEN [t EXCEPT !.pc = "getWorldBible", !.sid = CurrentStory(d).id]
    ELSE Idle

FirstRequests ==
    {"segmentStory", "breakdownScene", "breakdownAll", "extractWorldBible",
     "buildPrompts", "generateShot", "generateAll", "updateShot", "reorderShots",
     "updateEntity", "updateCameraBible", "generateRefs", "approveRef"}

\* State.set('currentStory', story) of selectStory and refreshCurrentStory,
\* skipped when a load issued later has already been stored
StoreLoadedIfNewest(d, story, t) ==
    IF \E k \in 1..Len(loadsDone) : loadsDone[k].seq > t.seq
    THEN d
    ELSE Put(d, "currentStory", story)

\* State.set('currentStory', story) of selectStory and refreshCurrentStory
StoreLoaded(d, story, t) == Put(d, "currentStory", story)

\* the request a handler issued first is answered
requestDone(i, ok) ==
    LET t == tasks[i]
        bd == BreakingDown(data)
        unmarked == Put(data, "breakingDownScenes", [bd EXCEPT !.elems = @ \ {t.sid}])
        next == IF t.h \in ThenRefresh THEN RefreshCall(t, data)
                ELSE IF t.h \in ThenLoadWorldBible THEN LoadWorldBibleCall(t, data)
                ELSE Idle
    IN  /\ t.pc \in FirstRequests
        /\ IF ok
           THEN Respond(i, IF next = Idle THEN Finally(t.h, data) ELSE data, next,
                        StepOf(t.h, t.pc, t.sid, TRUE, 0, FALSE, next.pc),
                        IF t.pc \in Mutating
                        THEN [srvRev EXCEPT ![StoryOf(t)] = Bump(@)] ELSE srvRev,
                        loadsDone)
           ELSE IF t.h = "breakdownScene"
           THEN RespondDom(i, unmarked, Idle,
                           StepOf(t.h, t.pc, t.sid, FALSE, 1,
                                  renderSceneCardsThrows(unmarked)
                                    \/ renderShotCardsThrows(unmarked), "none"),
                           srvRev, loadsDone, renderCards(unmarked, shotCards))
           ELSE Respond(i, Finally(t.h, data), Idle,
                        StepOf(t.h, t.pc, t.sid, FALSE, 1, FALSE, "none"),
                        srvRev, loadsDone)

\* POST /api/stories is answered, and a failed request is issued again
createStoryDoneRetrying(i, ok, newId) ==
    LET t == tasks[i]
    IN  /\ t.pc = "createStory"
        /\ IF ok
           THEN Respond(i, data, [t EXCEPT !.pc = "listStories", !.sid = newId],
                        StepOf(t.h, t.pc, newId, TRUE, 0, FALSE, "listStories"),
                        srvRev, loadsDone)
           ELSE Respond(i, data, t,
                        StepOf(t.h, t.pc, Null, FALSE, 1, FALSE, "createStory"),
                        srvRev, loadsDone)

\* POST /api/stories is answered: the new story has the id newId
createStoryDone(i, ok, newId) ==
    LET t == tasks[i]
    IN  /\ t.pc = "createStory"
        /\ IF ok
           THEN Respond(i, data, [t EXCEPT !.pc = "listStories", !.sid = newId],
                        StepOf(t.h, t.pc, newId, TRUE, 0, FALSE, "listStories"),
                        srvRev, loadsDone)
           ELSE Respond(i, Finally(t.h, data), Idle,
                        StepOf(t.h, t.pc, Null, FALSE, 1, FALSE, "none"),
                        srvRev, loadsDone)

\* loadStories: GET /api/stories is answered; handleCreateStory goes on
\* with selectStory(story.id)
listStoriesDone(i, ok) ==
    LET t == tasks[i]
        d1 == IF ok THEN Put(data, "stories", StoryIds) ELSE data
        toasts == IF ok THEN 0 ELSE 1
    IN  /\ t.pc = "listStories"
        /\ IF t.h = "handleCreateStory"
           THEN Respond(i, Put(d1, "loading", TRUE),
                        [t EXCEPT !.pc = "getStoryFull/selectStory"],
                        StepOf(t.h, t.pc, t.sid, ok, toasts, FALSE,
                               "getStoryFull/selectStory"),
                        srvRev, loadsDone)
           ELSE Respond(i, Finally(t.h, d1), Idle,
                        StepOf(t.h, t.pc, t.sid, ok, toasts, FALSE, "none"),
                        srvRev, loadsDone)

\* selectStory answered, dropping the current story when the load failed
selectStoryDoneClearing(i, ok) ==
    LET t == tasks[i]
        story == getStoryFull(t.sid)
        d1 == Put(Put(Put(StoreLoaded(data, story, t), "selectedScene", Null),
                      "selectedShot", Null), "view", "timeline")
    IN  /\ t.pc = "getStoryFull/selectStory"
        /\ IF ok
           THEN RespondDom(i, Put(d1, "loading", FALSE), Idle,
                           StepOf(t.h, t.pc, t.sid, TRUE,
                                  IF renderTimelineThrows(d1) THEN 1 ELSE 0, FALSE, "none"),
                           srvRev, Append(loadsDone, [sid |-> t.sid, seq |-> t.seq]),
                           renderTimelineCards(d1, shotCards))
           ELSE Respond(i, Put(Put(data, "currentStory", NoStory), "loading", FALSE), Idle,
                        StepOf(t.h, t.pc, t.sid, FALSE, 1, FALSE, "none"),
                        srvRev, loadsDone)

\* selectStory: GET /api/stories/{id}/full is answered
selectStoryDone(i, ok) ==
    LET t == tasks[i]
        story == getStoryFull(t.sid)
        d1 == Put(Put(Put(StoreLoaded(data, story, t), "selectedScene", Null),
                      "selectedShot", Null), "view", "timeline")
    IN  /\ t.pc = "getStoryFull/selectStory"
        /\ IF ok
           THEN RespondDom(i, Put(d1, "loading", FALSE), Idle,
                           StepOf(t.h, t.pc, t.sid, TRUE,
                                  IF renderTimelineThrows(d1) THEN 1 ELSE 0, FALSE, "none"),
                           srvRev, Append(loadsDone, [sid |-> t.sid, seq |-> t.seq]),
                           renderTimelineCards(d1, shotCards))
           ELSE Respond(i, Put(data, "loading", FALSE), Idle,
                        StepOf(t.h, t.pc, t.sid, FALSE, 1, FALSE, "none"),
                        srvRev, loadsDone)

\* refreshCurrentStory: GET /api/stories/{id}/full is answered.  Only the
\* handlers of ThenRefresh call it inside a try.
refreshDone(i, ok) ==
    LET t == tasks[i]
        story == getStoryFull(t.sid)
        d1 == StoreLoaded(data, story, t)
        inTry == t.h \in ThenRefresh
        caught == StepOf(t.h, t.pc, t.sid, ok, IF inTry THEN 1 ELSE 0, ~inTry, "none")
    IN  /\ t.pc = "getStoryFull/refresh"
        /\ IF ok
           THEN IF renderTimelineThrows(d1)
                THEN RespondDom(i, Finally(t.h, d1), Idle, caught, srvRev,
                                Append(loadsDone, [sid |-> t.sid, seq |-> t.seq]),
                                renderTimelineCards(d1, shotCards))
                ELSE RespondDom(i, d1, [t EXCEPT !.pc = "listStories"],
                                StepOf(t.h, t.pc, t.sid, TRUE, 0, FALSE, "listStories"),
                                srvRev,
                                Append(loadsDone, [sid |-> t.sid, seq |-> t.seq]),
                                renderTimelineCards(d1, shotCards))
           ELSE Respond(i, Finally(t.h, data), Idle, caught, srvRev, loadsDone)

\* loadWorldBible: GET world-bible is answered; an exception of render()
\* is caught like a failed request, and neither shows a toast
worldBibleDone(i, ok, renderOk) ==
    LET t == tasks[i]
        wb == IF ok /\ renderOk THEN [story |-> t.sid] ELSE NoWorldBible
    IN  /\ t.pc = "getWorldBible"
        /\ Respond(i, Put(data, "worldBible", wb), Idle,
                   StepOf(t.h, t.pc, t.sid, ok, 0, FALSE, "none"),
                   srvRev, loadsDone)

(***************************************************************************)
(* The application: messages pushed over the WebSocket                     *)
(***************************************************************************)
Completions ==
    {"generation_complete", "video_generation_scene_complete",
     "video_generation_complete", "breakdown_all_complete"}

Messages ==
    [type : {"shot_progress", "video_progress"}, id : ShotIds,
     status : {"generating", "complete", "error"}]
    \cup [type : {"breakdown_progress"}, id : SceneIds,
          status : {"started", "complete", "error"}]
    \cup [type : {"shot_map_progress"}, id : SceneIds,
          status : {"generating", "complete", "error"}]
    \cup [type : Completions \cup {"all_references_complete"}, id : {Null},
          status : {"none"}]
    \cup [type : {"extraction_progress"}, id : {1},
          status : {"extracting", "complete", "error"}]
    \cup [type : {"reference_progress"}, id : {Null}, status : {"complete", "error"}]

\* ActiveTimers and the intervals of the page
Timers == [active |-> ActiveTimers, running |-> intervals, next |-> nextInterval]

\* stopTimer(key): clearInterval of the entry's interval and delete of the
\* entry, if there is an entry
stopTimer(timers, key) ==
    IF key \in DOMAIN timers.active
    THEN [timers EXCEPT
            !.active = [k \in DOMAIN timers.active \ {key} |-> timers.active[k]],
            !.running = @ \ {[key |-> key, id |-> timers.active[key]]}]
    ELSE timers

\* startTimer without its stopTimer(key): the entry is overwritten
startTimerNoClear(timers, key) ==
    LET cleared == timers
        id == cleared.next
    IN  [active |-> [k \in DOMAIN cleared.active \cup {key} |->
                        IF k = key THEN id ELSE cleared.active[k]],
         running |-> cleared.running \cup {[key |-> key, id |-> id]},
         next |-> id + 1]

\* startTimer(key): stopTimer(key), setInterval, ActiveTimers[key] = entry
startTimer(timers, key) ==
    LET cleared == stopTimer(timers, key)
        id == cleared.next
    IN  [active |-> [k \in DOMAIN cleared.active \cup {key} |->
                        IF k = key THEN id ELSE cleared.active[k]],
         running |-> cleared.running \cup {[key |-> key, id |-> id]},
         next |-> id + 1]

\* shot_progress written into every shot of the story
ShotProgressAll(story, shotId, status) ==
    [story EXCEPT !.shots =
        [s \in DOMAIN story.shots |->
            [story.shots[s] EXCEPT !.generation_status = status,
                                   !.error_message = @ \/ status = "error",
                                   !.current_image = @ \/ status = "complete"]]]

\* shot_progress: findShot and the fields written into the shot found
ShotProgress(story, shotId, status) ==
    [story EXCEPT !.shots[shotId] =
        [@ EXCEPT !.generation_status = status,
                  !.error_message = @ \/ status = "error",
                  !.current_image = @ \/ status = "complete"]]

\* video_progress: the same for the video fields
VideoProgress(story, shotId, status) ==
    [story EXCEPT !.shots[shotId] =
        [@ EXCEPT !.video_generation_status = status,
                  !.video_error_message = @ \/ status = "error",
                  !.current_video = @ \/ status = "complete"]]

\* what a message does: the State after it, the timers, the error toasts,
\* whether an exception escaped, and the load it started without awaiting
Effect(d, timers, toasts, threw, starts) ==
    [d |-> d, timers |-> timers, toasts |-> toasts, threw |-> threw, starts |-> starts]

OnShotProgress(msg) ==
    LET cur == CurrentStory(data)
        key == <<IF msg.type = "shot_progress" THEN "shot" ELSE "video", msg.id>>
        d1 == [data EXCEPT !.currentStory =
                 IF msg.type = "shot_progress"
                 THEN ShotProgress(cur, msg.id, msg.status)
                 ELSE VideoProgress(cur, msg.id, msg.status)]
    IN  IF ~HasStory(data) \/ msg.id \notin DOMAIN cur.shots
        THEN Effect(data, Timers, 0, FALSE, "none")
        ELSE Effect(d1,
                    IF msg.status = "generating" THEN startTimer(Timers, key)
                    ELSE stopTimer(Timers, key),
                    0,
                    renderShotCardsThrows(d1)
                      \/ (d1.selectedShot = msg.id /\ renderDetailPanelThrows(d1)),
                    "none")

OnBreakdownProgress(msg) ==
    LET bd == BreakingDown(data)
        key == <<"breakdown", msg.id>>
        bd1 == IF msg.status = "started" THEN [bd EXCEPT !.elems = @ \cup {msg.id}]
               ELSE [bd EXCEPT !.elems = @ \ {msg.id}]
        d1 == Put(data, "breakingDownScenes", bd1)
    IN  IF ~bd.isSet
        THEN Effect(data, Timers, 0, TRUE, "none")
        ELSE Effect(d1,
                    IF msg.status = "started" THEN startTimer(Timers, key)
                    ELSE stopTimer(Timers, key),
                    IF msg.status = "error" THEN 1 ELSE 0,
                    renderSceneCardsThrows(d1)
                      \/ (d1.selectedScene = msg.id /\ renderShotCardsThrows(d1)),
                    IF msg.status = "complete" THEN "refresh" ELSE "none")

OnShotMapProgress(msg) ==
    LET key == <<"shotmap", msg.id>>
    IN  Effect(data,
               IF msg.status = "generating" THEN startTimer(Timers, key)
               ELSE stopTimer(Timers, key),
               IF msg.status = "error" THEN 1 ELSE 0, FALSE,
               IF msg.status = "complete" THEN "refresh" ELSE "none")

\* WorldBibleUI.handleWSMessage
OnWorldBibleMessage(msg, renderOk) ==
    IF msg.type = "extraction_progress"
    THEN IF msg.status = "complete"
         THEN Effect(Put(data, "worldBible", [story |-> msg.id]), Timers, 0,
                     ~renderOk, IF renderOk THEN "refresh" ELSE "none")
         ELSE Effect(data, Timers, IF msg.status = "error" THEN 1 ELSE 0,
                     FALSE, "none")
    ELSE IF msg.type = "reference_progress" /\ msg.status = "error"
    THEN Effect(data, Timers, 1, FALSE, "none")
    ELSE Effect(data, Timers, 0, FALSE, "loadWorldBible")

OnMessage(msg, renderOk) ==
    IF msg.type \in {"shot_progress", "video_progress"} THEN OnShotProgress(msg)
    ELSE IF msg.type \in Completions THEN Effect(data, Timers, 0, FALSE, "refresh")
    ELSE IF msg.type = "breakdown_progress" THEN OnBreakdownProgress(msg)
    ELSE IF msg.type = "shot_map_progress" THEN OnShotMapProgress(msg)
    ELSE OnWorldBibleMessage(msg, renderOk)

\* handleWSMessage(data): refreshCurrentStory() and loadWorldBible() are
\* called without await and outside any try of their own
handleWSMessage(msg, renderOk) ==
    LET e == OnMessage(msg, renderOk)
        launches == e.starts # "none" /\ HasStory(e.d)
        h == IF e.starts = "refresh" THEN "refreshCurrentStory" ELSE "loadWorldBible"
        pc == IF e.starts = "refresh" THEN "getStoryFull/refresh" ELSE "getWorldBible"
    IN  /\ launches => HasSlot
        /\ msgs' = msgs + 1
        /\ data' = e.d
        /\ ActiveTimers' = e.timers.active
        /\ intervals' = e.timers.running
        /\ nextInterval' = e.timers.next
        /\ tasks' = IF launches THEN Launch(h, pc, CurrentStory(e.d).id) ELSE tasks
        /\ last' = StepOf("handleWSMessage", msg.type, msg.id, TRUE, e.toasts, e.threw,
                          IF launches THEN pc ELSE "none")
        /\ lastMsg' = msg
        /\ shotCards' =
             IF \/ /\ msg.type \in {"shot_progress", "video_progress"}
                   /\ HasStory(data)
                   /\ msg.id \in DOMAIN CurrentStory(data).shots
                \/ /\ msg.type = "breakdown_progress"
                   /\ ~e.threw
                   /\ e.d.selectedScene = msg.id
             THEN renderShotCards(e.d, shotCards)
             ELSE shotCards
        /\ UNCHANGED <<started, srvRev, loadsDone>>
        /\ UNCHANGED <<libVars, wsVars, deployVars>>

\* the server pushes a message and WS hands it to handleWSMessage
Pushed(msg, renderOk) ==
    /\ msgs < MaxMsgs
    /\ handleWSMessage(msg, renderOk)

\* the same for the progress of a shot's image or video only
PushedProgress(msg) ==
    /\ msgs < MaxProgress
    /\ msg.type \in {"shot_progress", "video_progress"}
    /\ handleWSMessage(msg, TRUE)

(***************************************************************************)
(* deploy/auto-pull.sh, run by a timer; set -euo pipefail                  *)
(***************************************************************************)
DeployInit ==
    /\ upstream = 0
    /\ originMain = 0
    /\ head = 0
    /\ running = 0
    /\ pcDeploy = "idle"
    /\ localRev = 0
    /\ remoteRev = 0
    /\ deployFails = 0

\* a command may fail while fewer than MaxFails commands have failed
MayFail(ok) == ok \/ deployFails < MaxFails

Failed(ok) == IF ok THEN deployFails ELSE deployFails + 1

\* somebody pushes a commit to main
Push ==
    /\ upstream < MaxCommits
    /\ upstream' = upstream + 1
    /\ UNCHANGED <<originMain, head, running, pcDeploy, localRev, remoteRev, deployFails>>
    /\ UNCHANGED <<stateVars, wsVars, appVars>>

\* the timer starts a run: git fetch origin main, exit 1 if it fails
Fetch(ok) ==
    /\ pcDeploy = "idle"
    /\ MayFail(ok)
    /\ deployFails' = Failed(ok)
    /\ originMain' = IF ok THEN upstream ELSE originMain
    /\ pcDeploy' = IF ok THEN "compare" ELSE "idle"
    /\ UNCHANGED <<upstream, head, running, localRev, remoteRev>>
    /\ UNCHANGED <<stateVars, wsVars, appVars>>

\* LOCAL=$(git rev-parse HEAD); REMOTE=$(git rev-parse origin/main);
\* exit 0 if they are equal
Compare ==
    /\ pcDeploy = "compare"
    /\ localRev' = head
    /\ remoteRev' = originMain
    /\ pcDeploy' = IF head = originMain THEN "idle" ELSE "reset"
    /\ UNCHANGED <<upstream, originMain, head, running, deployFails>>
    /\ UNCHANGED <<stateVars, wsVars, appVars>>

\* git reset --hard origin/main | logger: a failure ends the run
ResetHard(ok) ==
    /\ pcDeploy = "reset"
    /\ MayFail(ok)
    /\ deployFails' = Failed(ok)
    /\ head' = IF ok THEN originMain ELSE head
    /\ pcDeploy' = IF ok THEN "deps" ELSE "idle"
    /\ UNCHANGED <<upstream, originMain, running, localRev, remoteRev>>
    /\ UNCHANGED <<stateVars, wsVars, appVars>>

\* if git diff LOCAL REMOTE --name-only | grep -q requirements.txt: pip
\* install | logger.  changed: the diff names requirements.txt; seen: the
\* pipeline of the condition exits 0 (under pipefail it does not when
\* grep -q exits before git diff has written its output).  A failure of
\* the install ends the run.
InstallDeps(changed, seen, ok) ==
    /\ pcDeploy = "deps"
    /\ IF changed /\ seen
       THEN /\ MayFail(ok)
            /\ deployFails' = Failed(ok)
            /\ pcDeploy' = IF ok THEN "restart" ELSE "idle"
       ELSE /\ deployFails' = deployFails
            /\ pcDeploy' = "restart"
    /\ UNCHANGED <<upstream, originMain, head, running, localRev, remoteRev>>
    /\ UNCHANGED <<stateVars, wsVars, appVars>>

\* sudo systemctl restart storybook | logger, then the run ends
Restart(ok) ==
    /\ pcDeploy = "restart"
    /\ MayFail(ok)
    /\ deployFails' = Failed(ok)
    /\ running' = IF ok THEN head ELSE running
    /\ pcDeploy' = "idle"
    /\ UNCHANGED <<upstream, originMain, head, localRev, remoteRev>>
    /\ UNCHANGED <<stateVars, wsVars, appVars>>

\* one step of a run of the script
RunStep ==
    \/ \E ok \in BOOLEAN : Fetch(ok)
    \/ Compare
    \/ \E ok \in BOOLEAN : ResetHard(ok)
    \/ \E changed \in BOOLEAN, seen \in BOOLEAN, ok \in BOOLEAN :
          InstallDeps(changed, seen, ok)
    \/ \E ok \in BOOLEAN : Restart(ok)

NextDeploy == Push \/ RunStep

(***************************************************************************)
(* startTimer / stopTimer called in any order                              *)
(***************************************************************************)
TimerKeys == {<<"shot", 1>>, <<"video", 1>>, <<"breakdown", 1>>}

TimerCall(name, key, timers) ==
    /\ ActiveTimers' = timers.active
    /\ intervals' = timers.running
    /\ nextInterval' = timers.next
    /\ last' = StepOf(name, IF key \in DOMAIN ActiveTimers THEN "running" ELSE "absent",
                      Null, TRUE, 0, FALSE, "done")
    /\ UNCHANGED <<tasks, started, msgs, srvRev, loadsDone, lastMsg, shotCards>>
    /\ UNCHANGED <<stateVars, wsVars, deployVars>>

StartTimer(key) ==
    /\ nextInterval <= MaxIntervals
    /\ TimerCall("startTimer", key, startTimer(Timers, key))

StopTimer(key) == TimerCall("stopTimer", key, stopTimer(Timers, key))

NextTimers == \E key \in TimerKeys : StartTimer(key) \/ StopTimer(key)

(***************************************************************************)
(* renderDetailPanel over the stories and selections State can hold        *)
(***************************************************************************)
\* what renderDetailPanel puts into the detail panel; renderSceneDetail
\* starts with breakingDown.has(scene.id)
renderDetailPanel(d) ==
    IF d.selectedShot # Null /\ HasStory(d)
       /\ d.selectedShot \in DOMAIN CurrentStory(d).shots
    THEN "shot"
    ELSE IF d.selectedScene # Null /\ HasStory(d)
            /\ d.selectedScene \in ScenesOf(CurrentStory(d).id)
    THEN IF BreakingDown(d).isSet THEN "scene" ELSE "throws"
    ELSE "empty"

RenderDetailPanel ==
    /\ last' = StepOf("renderDetailPanel", renderDetailPanel(data), Null, TRUE, 0,
                      renderDetailPanel(data) = "throws", "done")
    /\ UNCHANGED <<tasks, started, msgs, srvRev, ActiveTimers, loadsDone, lastMsg,
                   intervals, nextInterval, shotCards>>
    /\ UNCHANGED <<stateVars, wsVars, deployVars>>

DetailValues(key) ==
    IF key = "currentStory" THEN {NoStory} \cup {getStoryFull(id) : id \in StoryIds}
    ELSE IF key = "selectedScene" THEN {Null} \cup SceneIds
    ELSE {Null} \cup ShotIds

SetDetail ==
    \E key \in {"currentStory", "selectedScene", "selectedShot"} :
        \E value \in DetailValues(key) : StateSet(key, value)

NextDetail == SetDetail \/ RenderDetailPanel

Init == StateInit /\ WSInit /\ AppInit /\ DeployInit

SetAny == \E key \in Keys : \E value \in ValuesOf(key) : StateSet(key, value)

OnChangeAny == \E kind \in {"returns", "throws"} : StateOnChange(kind)

NextState == SetAny \/ OnChangeAny

SpecState == Init /\ [][NextState]_vars

SpecWS == Init /\ [][NextWS]_vars

\* the browser runs a timeout that is due
SpecWSFair == SpecWS /\ WF_vars(WSReconnect)

\* the application: every handler, every response, every pushed message
Next ==
    \/ \E id \in StoryIds : selectStory(id)
    \/ \E valid \in BOOLEAN : handleCreateStory(valid)
    \/ segmentStory
    \/ \E sceneId \in SceneIds : breakdownScene(sceneId)
    \/ breakdownAll
    \/ extractWorld
    \/ buildPrompts
    \/ \E shotId \in ShotIds : generateShot(shotId)
    \/ \E shotId \in ShotIds : generateShotVideo(shotId)
    \/ \E sceneId \in SceneIds : suggestTransitions(sceneId)
    \/ \E sceneId \in SceneIds : generateShotMap(sceneId)
    \/ generateAllVideos
    \/ generateAll
    \/ \E shotId \in ShotIds : saveShotEdits(shotId)
    \/ \E shotId \in ShotIds : transitionItemClick(shotId)
    \/ \E fromId \in ShotIds, toId \in ShotIds : shotCardDrop(fromId, toId)
    \/ saveEntity(1)
    \/ saveCameraBible(1)
    \/ generateRefs(1)
    \/ approveRef(1)
    \/ \E name \in {"create", "timeline", "world-bible"} : showView(name)
    \/ \E sceneId \in SceneIds : started < MaxStarts /\ sceneMarkerClick(sceneId)
    \/ \E i \in 1..MaxTasks, ok \in BOOLEAN : requestDone(i, ok)
    \/ \E i \in 1..MaxTasks, ok \in BOOLEAN, newId \in StoryIds : createStoryDone(i, ok, newId)
    \/ \E i \in 1..MaxTasks, ok \in BOOLEAN : listStoriesDone(i, ok)
    \/ \E i \in 1..MaxTasks, ok \in BOOLEAN : selectStoryDone(i, ok)
    \/ \E i \in 1..MaxTasks, ok \in BOOLEAN : refreshDone(i, ok)
    \/ \E i \in 1..MaxTasks, ok \in BOOLEAN, renderOk \in BOOLEAN : worldBibleDone(i, ok, renderOk)
    \/ \E msg \in Messages, renderOk \in BOOLEAN : Pushed(msg, renderOk)

Spec == Init /\ [][Next]_vars

SpecDeploy == Init /\ [][NextDeploy]_vars

SpecTimers == Init /\ [][NextTimers]_vars

SpecDetail == Init /\ [][NextDetail]_vars

\* stories are selected while the progress of shots is pushed
NextProgress ==
    \/ \E id \in StoryIds : selectStory(id)
    \/ \E i \in 1..MaxTasks, ok \in BOOLEAN : listStoriesDone(i, ok)
    \/ \E i \in 1..MaxTasks, ok \in BOOLEAN : selectStoryDone(i, ok)
    \/ \E msg \in Messages : PushedProgress(msg)

SpecProgress == Init /\ [][NextProgress]_vars

\* the callback of a running interval: renderTimeline() outside any try
timerTick ==
    /\ intervals # {}
    /\ shotCards' = renderTimelineCards(data, shotCards)
    /\ last' = StepOf("timerTick", "start", Null, TRUE, 0, renderTimelineThrows(data),
                      "done")
    /\ lastMsg' = NoMsg
    /\ UNCHANGED <<data, tasks, started, msgs, srvRev, ActiveTimers, loadsDone,
                   intervals, nextInterval>>
    /\ UNCHANGED <<libVars, wsVars, deployVars>>

\* a story is selected, progress is pushed, and the user clicks scene markers
\* and the shot cards that are rendered
NextSelection ==
    \/ \E id \in StoryIds : selectStory(id)
    \/ \E i \in 1..MaxTasks, ok \in BOOLEAN : listStoriesDone(i, ok)
    \/ \E i \in 1..MaxTasks, ok \in BOOLEAN : selectStoryDone(i, ok)
    \/ \E msg \in Messages : msgs < MaxShown /\ PushedProgress(msg)
    \/ timerTick
    \/ \E sceneId \in SceneIds : started < MaxClicks /\ sceneMarkerClick(sceneId)
    \/ \E shotId \in ShotIds : started < MaxClicks /\ shotCardClick(shotId)

SpecSelection == Init /\ [][NextSelection]_vars

\* the timer keeps starting runs and a started run goes on to its end
SpecDeployFair == SpecDeploy /\ WF_vars(RunStep)

(***************************************************************************)
(* C1  State.get(k) returns the value of the most recent State.set(k, v),  *)
(* or the initial value if k was never set; State.set(k, v) leaves every   *)
(* other key as it was.  As a step property: a set of k makes get(k) the   *)
(* value passed and changes no other key, and no other operation changes   *)
(* any key.                                                                *)
(***************************************************************************)
C1_LastWriteWins ==
    [][ /\ sop'.op = "set" =>
            /\ StateGet(data', sop'.key) = sop'.value
            /\ \A k \in Keys \ {sop'.key} : StateGet(data', k) = StateGet(data, k)
        /\ sop'.op # "set" => data' = data ]_stateVars

\* a key that _data did not declare has been set and reads back
C1_Witness ==
    /\ sop.op = "set"
    /\ sop.key = "breakingDownScenes"
    /\ StateGet(data, "breakingDownScenes") = [isSet |-> TRUE, elems |-> {1}]
    /\ StateGet(data, "loading") = TRUE

(***************************************************************************)
(* C2  State.set(k, v) calls every listener registered before it exactly   *)
(* once, in registration order, with (k, v), after the value is stored; a  *)
(* listener that throws neither stops the remaining listeners nor undoes   *)
(* the write.                                                              *)
(***************************************************************************)
C2_NotifyAll ==
    sop.op = "set" =>
        /\ Len(calls) = Len(listeners)
        /\ \A i \in 1..Len(calls) :
              /\ calls[i].fn = i
              /\ calls[i].key = sop.key
              /\ calls[i].value = sop.value
        /\ StateGet(data, sop.key) = sop.value

\* the first listener threw and the second was still called with the new value
C2_Witness ==
    /\ sop.op = "set"
    /\ Len(listeners) = 2
    /\ listeners[1] = "throws"
    /\ Len(calls) = 2
    /\ calls[1].threw
    /\ calls[2].value = sop.value
    /\ sop.value # InitData[sop.key]

(***************************************************************************)
(* C5  Whenever the socket closes, also when an error event forced the     *)
(* close, exactly one reconnect is scheduled, ReconnectDelay ms later, the *)
(* delay never grows, and every close is eventually followed by a new      *)
(* connection attempt.                                                     *)
(***************************************************************************)
C5_OneTimer ==
    /\ (wsSock = "closed") <=> (Len(wsTimers) = 1)
    /\ Len(wsTimers) <= 1
    /\ \A i \in 1..Len(wsTimers) : wsTimers[i] = ReconnectDelay

C5_Reconnect ==
    /\ []C5_OneTimer
    /\ (wsSock = "closed") ~> (wsSock = "connecting")

\* a reconnect has happened after a close and the client is connecting again
C5_Witness ==
    /\ wsLast.ev = "connect"
    /\ wsConns >= 2
    /\ wsSock = "connecting"
    /\ wsTimers = <<>>

(***************************************************************************)
(* C6  Every message whose payload parses as JSON is passed to every       *)
(* registered handler, in registration order; a payload that is not JSON   *)
(* is dropped: no handler is called and the connection stays open.         *)
(***************************************************************************)
C6_EveryHandlerCalled ==
    wsLast.ev = "message" =>
        /\ wsSock = "open"
        /\ wsLast.payload = "json" =>
              /\ Len(wsCalled) = Len(wsHandlers)
              /\ \A i \in 1..Len(wsCalled) : wsCalled[i] = i
        /\ wsLast.payload # "json" => wsCalled = <<>>

(***************************************************************************)
(* C7  A handler registered with WS.onMessage, before or after connect,    *)
(* receives the messages of the connection it was added under and of every *)
(* later connection; a reconnect neither drops nor duplicates a handler.   *)
(***************************************************************************)
C7_HandlerSurvivesReconnect ==
    (wsLast.ev = "message" /\ wsLast.payload = "json") =>
        \A i \in 1..Len(wsHandlers) :
            wsHandlers[i].conn <= wsLast.conn =>
                Cardinality({j \in 1..Len(wsCalled) : wsCalled[j] = i}) = 1

(***************************************************************************)
(* The application's claims, under Spec                                    *)
(***************************************************************************)
UserHandlers ==
    {"loadStories", "selectStory", "handleCreateStory", "segmentStory",
     "breakdownScene", "breakdownAll", "extractWorld", "buildPrompts",
     "generateShot", "generateShotVideo", "generateAll", "generateAllVideos",
     "suggestTransitions", "generateShotMap", "saveShotEdits", "reorder",
     "transition", "saveEntity", "saveCameraBible", "generateRefs", "approveRef"}

\* C3 as stated: whenever a request of a user action handler fails, the
\* handler shows exactly one error toast, lets no exception escape and does
\* not issue the failed request again.
C3_OneToastPerFailure ==
    (last.h \in UserHandlers /\ ~last.ok)
        => (last.toasts = 1 /\ ~last.rejected /\ last.next # last.api)

\* C3 amended: a failed request of a user action handler is caught and not
\* issued again, and shows exactly one error toast, except the reload of the
\* world bible after saveEntity, saveCameraBible or approveRef succeeded,
\* whose failure is caught without any toast.
C3_OneToastUnlessReload ==
    (last.h \in UserHandlers /\ ~last.ok)
        => /\ ~last.rejected
           /\ last.next # last.api
           /\ last.toasts = IF last.api = "getWorldBible" THEN 0 ELSE 1

C3_Witness ==
    /\ last.h \in ThenLoadWorldBible
    /\ last.api = "getWorldBible"
    /\ ~last.ok
    /\ last.toasts = 0

\* C4: a request started by a WebSocket message (refreshCurrentStory or
\* loadWorldBible called from handleWSMessage) that fails is caught and
\* shows an error toast.
C4_PushedFailureToasted ==
    (last.h \in {"refreshCurrentStory", "loadWorldBible"} /\ ~last.ok)
        => (last.toasts = 1 /\ ~last.rejected)

\* C8: once a story load has been answered, currentStory is the story of
\* the response that arrived last, whatever the order of the requests.
C8_LastResponseWins ==
    loadsDone # <<>> => CurrentStory(data).id = loadsDone[Len(loadsDone)].sid

\* two loads of different stories were answered in the reverse of the order
\* in which they were issued
C8_Witness ==
    /\ Len(loadsDone) = 2
    /\ loadsDone[1].seq > loadsDone[2].seq
    /\ loadsDone[1].sid # loadsDone[2].sid
    /\ CurrentStory(data).id = loadsDone[2].sid

\* C9: currentStory changes only by being replaced with the answer to
\* GET /api/stories/{id}/full, or by a shot_progress / video_progress
\* message writing into the one shot it names; no handler of a user edit
\* writes into it.
C9_OnlyServerWrites ==
    [][CurrentStory(data') # CurrentStory(data) =>
        \/ /\ last'.ok
           /\ last'.api \in {"getStoryFull/selectStory", "getStoryFull/refresh"}
           /\ CurrentStory(data') = getStoryFull(last'.sid)
        \/ /\ last'.h = "handleWSMessage"
           /\ last'.api \in {"shot_progress", "video_progress"}
           /\ last'.sid \in DOMAIN CurrentStory(data).shots
           /\ CurrentStory(data').id = CurrentStory(data).id
           /\ CurrentStory(data').rev = CurrentStory(data).rev
           /\ \A s \in DOMAIN CurrentStory(data).shots \ {last'.sid} :
                 CurrentStory(data').shots[s] = CurrentStory(data).shots[s]]_vars

\* the server accepted an edit of a shot of the current story, and the
\* local copy is still the older revision
C9_Witness ==
    /\ last.h \in {"saveShotEdits", "transition", "reorder"}
    /\ last.api \in {"updateShot", "reorderShots"}
    /\ last.ok
    /\ last.sid \in DOMAIN CurrentStory(data).shots
    /\ CurrentStory(data).rev < srvRev[CurrentStory(data).id]

\* C10: when breakdownScene(s) has run up to its request, s is in
\* breakingDownScenes and no exception has escaped.
C10_MarkedBeforeRequest ==
    (last.h = "breakdownScene" /\ last.api = "start")
        => /\ BreakingDown(data).isSet
           /\ last.sid \in BreakingDown(data).elems
           /\ ~last.rejected

(***************************************************************************)
(* The deployment script's claim, under SpecDeployFair                     *)
(***************************************************************************)
\* C11: whenever the checkout is at a commit the service was not restarted
\* on, the service is eventually restarted on the commit checked out, in
\* the same run or a later one, also after a failed install or restart.
C11_PulledIsRestarted == (head # running) ~> (head = running)

(***************************************************************************)
(* More claims of the application, under Spec                              *)
(***************************************************************************)
\* C12: right after a breakdown_progress message for scene s was handled:
\* if its status was 'started', s is in breakingDownScenes and the timer
\* breakdown_<s> is running; if it was 'complete' or 'error', s is not in
\* breakingDownScenes and that timer is not running.
C12_BreakdownProgress ==
    lastMsg.type = "breakdown_progress" =>
        IF lastMsg.status = "started"
        THEN /\ BreakingDown(data).isSet
             /\ lastMsg.id \in BreakingDown(data).elems
             /\ <<"breakdown", lastMsg.id>> \in DOMAIN ActiveTimers
        ELSE /\ lastMsg.id \notin BreakingDown(data).elems
             /\ <<"breakdown", lastMsg.id>> \notin DOMAIN ActiveTimers

\* C14: breakdownAll marks every scene of the current story that has no
\* shots as breaking down before its request is sent, and after a failed
\* request no scene of the story is left in breakingDownScenes.
C14_BreakdownAllMarksAndUnmarks ==
    /\ (last.h = "breakdownAll" /\ last.api = "start" /\ HasStory(data))
          => /\ ~last.rejected
             /\ \A sc \in ScenesOf(CurrentStory(data).id) :
                   ShotsOf(sc) = {}
                     => (BreakingDown(data).isSet /\ sc \in BreakingDown(data).elems)
    /\ (last.h = "breakdownAll" /\ last.api = "breakdownAll" /\ ~last.ok)
          => BreakingDown(data).elems \cap ScenesOf(CurrentStory(data).id) = {}

(***************************************************************************)
(* The timers' claim, under SpecTimers                                     *)
(***************************************************************************)
\* C15: every interval that is running is the one recorded in ActiveTimers
\* under its key (hence at most one per key), and every entry of
\* ActiveTimers has its interval running.
C15_IntervalsAreEntries ==
    /\ \A r \in intervals :
          r.key \in DOMAIN ActiveTimers /\ ActiveTimers[r.key] = r.id
    /\ \A k \in DOMAIN ActiveTimers : [key |-> k, id |-> ActiveTimers[k]] \in intervals

\* startTimer was called on a key whose timer was running
C15_Witness ==
    /\ last.h = "startTimer"
    /\ last.api = "running"
    /\ Cardinality(intervals) = Cardinality(DOMAIN ActiveTimers)
    /\ intervals # {}

(***************************************************************************)
(* The claim about the timers of shots, under SpecProgress                 *)
(***************************************************************************)
\* C16: right after a shot_progress (video_progress) message with status
\* 'complete' or 'error' for a shot was handled, the timer shot_<id>
\* (video_<id>) is not running, whichever story is current.
C16_TerminalStopsTimer ==
    (lastMsg.type \in {"shot_progress", "video_progress"}
       /\ lastMsg.status \in {"complete", "error"})
        => <<IF lastMsg.type = "shot_progress" THEN "shot" ELSE "video", lastMsg.id>>
              \notin DOMAIN ActiveTimers

(***************************************************************************)
(* Claims about loading, selectStory and refreshCurrentStory, under Spec   *)
(***************************************************************************)
\* C17: loading is true exactly when a handler that tracks loading
\* (selectStory, handleCreateStory, segmentStory, generateAll) is in flight.
C17_LoadingIffInFlight ==
    data.loading <=> (\E i \in 1..MaxTasks : tasks[i].h \in TracksLoading)

\* C18: the step in which selectStory's request is answered: on success
\* currentStory is the story loaded, selectedScene and selectedShot are null
\* and view is 'timeline'; on failure the four are left as they were and
\* one error toast is shown.
C18_SelectStory ==
    [][last'.api = "getStoryFull/selectStory" =>
        IF last'.ok
        THEN /\ CurrentStory(data') = getStoryFull(last'.sid)
             /\ data'.selectedScene = Null
             /\ data'.selectedShot = Null
             /\ data'.view = "timeline"
        ELSE /\ CurrentStory(data') = CurrentStory(data)
             /\ data'.selectedScene = data.selectedScene
             /\ data'.selectedShot = data.selectedShot
             /\ data'.view = data.view
             /\ last'.toasts = 1]_vars

\* the load of another story failed while a story was current
C18_Witness ==
    /\ last.api = "getStoryFull/selectStory"
    /\ ~last.ok
    /\ last.toasts = 1
    /\ HasStory(data)
    /\ last.sid # CurrentStory(data).id

\* C19: the step in which refreshCurrentStory's request is answered leaves
\* the id of currentStory, selectedScene and selectedShot as they were.
C19_RefreshKeepsStory ==
    [][(last'.api = "getStoryFull/refresh" /\ last'.ok) =>
        /\ CurrentStory(data').id = CurrentStory(data).id
        /\ data'.selectedScene = data.selectedScene
        /\ data'.selectedShot = data.selectedShot]_vars

(***************************************************************************)
(* The claim about renderDetailPanel, under SpecDetail                     *)
(***************************************************************************)
\* C20: renderDetailPanel never throws, and shows the shot detail if
\* selectedShot is a shot of currentStory, else the scene detail if
\* selectedScene is a scene of currentStory, else the empty state.
C20_DetailPanel ==
    [][(last' # last /\ last'.h = "renderDetailPanel") =>
        /\ ~last'.rejected
        /\ last'.api =
             IF data.selectedShot \in DOMAIN CurrentStory(data).shots THEN "shot"
             ELSE IF data.selectedScene \in ScenesOf(CurrentStory(data).id) THEN "scene"
             ELSE "empty"]_vars

(***************************************************************************)
(* The claim about the selection, under SpecSelection                      *)
(***************************************************************************)
\* C21: in every reachable state, if selectedShot is not null then
\* selectedScene is not null and the selected shot is one of the shots of
\* the selected scene in currentStory.
C21_ShotOfSelectedScene ==
    data.selectedShot # Null =>
        /\ data.selectedScene # Null
        /\ data.selectedScene \in ScenesOf(CurrentStory(data).id)
        /\ data.selectedShot \in ShotsOf(data.selectedScene)
                                  \cap DOMAIN CurrentStory(data).shots

====
